---------------------------- MODULE Spec2Model ----------------------------
(***************************************************************************)
(* A model of json_to_csv (src/json_to_csv/json_to_csv.py): the chunked    *)
(* tokenizer read_jsons_chunks, the flattener _flatten, the column scan    *)
(* get_columns, the writer update_csv / get_dataframe and main.            *)
(*                                                                         *)
(* Text is a sequence of one-character strings.  A Python value is a       *)
(* record [t, n, f, s, items]: t is the Python type name, n the integer    *)
(* (or the integer part of a float, or 0/1 of a bool), f the first decimal *)
(* digit of a float, s the characters of a str, items the entries of a     *)
(* dict ([k, v] in insertion order) or of a list ([k |-> <<>>, v]).        *)
(***************************************************************************)
EXTENDS Integers, Sequences, FiniteSets, TLC

VARIABLES
    gen,        \* the frame of one read_jsons_chunks generator
    input,      \* tokenizer runs: the file read (its text; the records it was rendered from)
    out,        \* tokenizer runs: the batches the consumer received
    fl,         \* _flatten runs: the call's arguments, then its result
    run         \* scans: the frame of get_columns / get_dataframe / main

vars == <<gen, input, out, fl, run>>

-----------------------------------------------------------------------------
(* Characters *)

QUOTE == "\""
BSLASH == "\\"
NL == "\n"

CharCode(c) ==
    CASE c = NL -> 10
      [] c = " " -> 32
      [] c = QUOTE -> 34
      [] c = "," -> 44
      [] c = "." -> 46
      [] c = "0" -> 48
      [] c = "1" -> 49
      [] c = "2" -> 50
      [] c = "5" -> 53
      [] c = ":" -> 58
      [] c = "[" -> 91
      [] c = BSLASH -> 92
      [] c = "]" -> 93
      [] c = "_" -> 95
      [] c = "a" -> 97
      [] c = "b" -> 98
      [] c = "c" -> 99
      [] c = "x" -> 120
      [] c = "y" -> 121
      [] c = "z" -> 122
      [] c = "{" -> 123
      [] c = "}" -> 125
      [] OTHER -> 127

\* Python's str comparison a < b: by code point, a proper prefix first.
RECURSIVE StrLess(_, _)
StrLess(a, b) ==
    IF b = <<>> THEN FALSE
    ELSE IF a = <<>> THEN TRUE
    ELSE IF CharCode(Head(a)) # CharCode(Head(b))
         THEN CharCode(Head(a)) < CharCode(Head(b))
    ELSE StrLess(Tail(a), Tail(b))

-----------------------------------------------------------------------------
(* Python values *)

PyVal(t, n, f, s, items) == [t |-> t, n |-> n, f |-> f, s |-> s, items |-> items]
None == PyVal("NoneType", 0, 0, <<>>, <<>>)
PyBool(b) == PyVal("bool", IF b THEN 1 ELSE 0, 0, <<>>, <<>>)
PyInt(n) == PyVal("int", n, 0, <<>>, <<>>)
PyFloat(n, f) == PyVal("float", n, f, <<>>, <<>>)
PyStr(s) == PyVal("str", 0, 0, s, <<>>)
PyList(elems) == PyVal("list", 0, 0, <<>>, [x \in DOMAIN elems |-> [k |-> <<>>, v |-> elems[x]]])
PyDict(items) == PyVal("dict", 0, 0, <<>>, items)
Item(k, v) == [k |-> k, v |-> v]

Elems(lst) == [x \in DOMAIN lst.items |-> lst.items[x].v]
Keys(d) == [x \in DOMAIN d.items |-> d.items[x].k]
KeySet(d) == {d.items[x].k : x \in DOMAIN d.items}
HasKey(d, k) == k \in KeySet(d)
Get(d, k) == d.items[CHOOSE x \in DOMAIN d.items : d.items[x].k = k].v

\* dict(items): a later pair with the same key overwrites the value in place.
RECURSIVE DictOf(_, _)
DictOf(pairs, acc) ==
    IF pairs = <<>> THEN acc
    ELSE LET p == Head(pairs)
             hit == {x \in DOMAIN acc : acc[x].k = p.k}
         IN  DictOf(Tail(pairs),
                    IF hit = {} THEN Append(acc, p)
                    ELSE [x \in DOMAIN acc |-> IF x \in hit THEN p ELSE acc[x]])

\* sorted(pairs, key=lambda tup: tup[0]): stable insertion by key.
RECURSIVE InsertByKey(_, _)
InsertByKey(sorted, p) ==
    IF sorted = <<>> THEN <<p>>
    ELSE IF StrLess(p.k, Head(sorted).k) THEN <<p>> \o sorted
    ELSE <<Head(sorted)>> \o InsertByKey(Tail(sorted), p)

RECURSIVE SortedByKey(_, _)
SortedByKey(pairs, acc) ==
    IF pairs = <<>> THEN acc
    ELSE SortedByKey(Tail(pairs), InsertByKey(acc, Head(pairs)))

\* isinstance(v, int): bool is a subclass of int.
IsInstanceInt(v) == v.t \in {"int", "bool"}

\* float(v) of an int or a bool.
ToFloat(v) == PyFloat(v.n, 0)

-----------------------------------------------------------------------------
(* json.loads: a recursive-descent parser of the JSON the model's texts use  *)
(* (objects, arrays, strings with \" and \\ escapes, unsigned numbers with   *)
(* at most one decimal, true, false, null, blanks and newlines between       *)
(* tokens).  A result is [ok, val, pos]: pos is the index after the value.   *)

Digits == <<"0", "1", "2", "3", "4", "5", "6", "7", "8", "9">>
IsDigit(c) == \E x \in DOMAIN Digits : Digits[x] = c
DigitVal(c) == (CHOOSE x \in DOMAIN Digits : Digits[x] = c) - 1

ParseFail == [ok |-> FALSE, val |-> None, pos |-> 0]
ParseOk(v, p) == [ok |-> TRUE, val |-> v, pos |-> p]

RECURSIVE SkipWs(_, _)
SkipWs(t, p) ==
    IF p <= Len(t) /\ t[p] \in {" ", NL} THEN SkipWs(t, p + 1) ELSE p

StartsWith(t, p, word) ==
    /\ p + Len(word) - 1 <= Len(t)
    /\ SubSeq(t, p, p + Len(word) - 1) = word

\* p is the index after the opening quote; acc the characters decoded so far.
RECURSIVE ParseStringBody(_, _, _)
ParseStringBody(t, p, acc) ==
    IF p > Len(t) THEN ParseFail
    ELSE IF t[p] = QUOTE THEN ParseOk(PyStr(acc), p + 1)
    ELSE IF t[p] = NL THEN ParseFail
    ELSE IF t[p] = BSLASH
         THEN IF p + 1 <= Len(t) /\ t[p + 1] \in {QUOTE, BSLASH}
              THEN ParseStringBody(t, p + 2, Append(acc, t[p + 1]))
              ELSE ParseFail
    ELSE ParseStringBody(t, p + 1, Append(acc, t[p]))

RECURSIVE ParseDigits(_, _, _)
ParseDigits(t, p, acc) ==
    IF p <= Len(t) /\ IsDigit(t[p]) THEN ParseDigits(t, p + 1, acc * 10 + DigitVal(t[p]))
    ELSE ParseOk(PyInt(acc), p)

ParseNumber(t, p) ==
    LET whole == ParseDigits(t, p, 0)
        q == whole.pos
    IN  IF t[p] = "0" /\ q > p + 1 THEN ParseFail
        ELSE IF q <= Len(t) /\ t[q] = "."
        THEN IF q + 1 <= Len(t) /\ IsDigit(t[q + 1])
                  /\ ~(q + 2 <= Len(t) /\ IsDigit(t[q + 2]))
             THEN ParseOk(PyFloat(whole.val.n, DigitVal(t[q + 1])), q + 2)
             ELSE ParseFail
        ELSE whole

RECURSIVE ParseValue(_, _)
RECURSIVE ParseMembers(_, _, _)
RECURSIVE ParseElements(_, _, _)

\* p is at the start of a member's key (blanks skipped); acc the pairs so far.
ParseMembers(t, p, acc) ==
    IF ~(p <= Len(t) /\ t[p] = QUOTE) THEN ParseFail
    ELSE LET key == ParseStringBody(t, p + 1, <<>>)
         IN  IF ~key.ok THEN ParseFail
             ELSE LET c == SkipWs(t, key.pos)
                  IN  IF ~(c <= Len(t) /\ t[c] = ":") THEN ParseFail
                      ELSE LET v == ParseValue(t, SkipWs(t, c + 1))
                           IN  IF ~v.ok THEN ParseFail
                               ELSE LET e == SkipWs(t, v.pos)
                                        now == Append(acc, Item(key.val.s, v.val))
                                    IN  IF e > Len(t) THEN ParseFail
                                        ELSE IF t[e] = "}"
                                             THEN ParseOk(PyDict(DictOf(now, <<>>)), e + 1)
                                        ELSE IF t[e] = ","
                                             THEN ParseMembers(t, SkipWs(t, e + 1), now)
                                        ELSE ParseFail

\* p is at the start of an element (blanks skipped); acc the elements so far.
ParseElements(t, p, acc) ==
    LET v == ParseValue(t, p)
    IN  IF ~v.ok THEN ParseFail
        ELSE LET e == SkipWs(t, v.pos)
                 now == Append(acc, v.val)
             IN  IF e > Len(t) THEN ParseFail
                 ELSE IF t[e] = "]" THEN ParseOk(PyList(now), e + 1)
                 ELSE IF t[e] = "," THEN ParseElements(t, SkipWs(t, e + 1), now)
                 ELSE ParseFail

ParseValue(t, p) ==
    IF p > Len(t) THEN ParseFail
    ELSE IF t[p] = "{"
         THEN LET q == SkipWs(t, p + 1)
              IN  IF q <= Len(t) /\ t[q] = "}" THEN ParseOk(PyDict(<<>>), q + 1)
                  ELSE ParseMembers(t, q, <<>>)
    ELSE IF t[p] = "["
         THEN LET q == SkipWs(t, p + 1)
              IN  IF q <= Len(t) /\ t[q] = "]" THEN ParseOk(PyList(<<>>), q + 1)
                  ELSE ParseElements(t, q, <<>>)
    ELSE IF t[p] = QUOTE THEN ParseStringBody(t, p + 1, <<>>)
    ELSE IF IsDigit(t[p]) THEN ParseNumber(t, p)
    ELSE IF StartsWith(t, p, <<"t", "r", "u", "e">>) THEN ParseOk(PyBool(TRUE), p + 4)
    ELSE IF StartsWith(t, p, <<"f", "a", "l", "s", "e">>) THEN ParseOk(PyBool(FALSE), p + 5)
    ELSE IF StartsWith(t, p, <<"n", "u", "l", "l">>) THEN ParseOk(None, p + 4)
    ELSE ParseFail

\* json.loads(text): the value, or ok = FALSE where json.loads raises.
JsonLoads(text) ==
    LET v == ParseValue(text, SkipWs(text, 1))
    IN  IF v.ok /\ SkipWs(text, v.pos) = Len(text) + 1 THEN v ELSE ParseFail

-----------------------------------------------------------------------------
(* _flatten *)

\* new_key = parent_key + sep + k if parent_key else k
NewKey(parent_key, sep, k) ==
    IF parent_key # <<>> THEN parent_key \o sep \o k ELSE k

\* The scalar branch: the pairs one non-list, non-dict value adds to items.
LeafPairs(new_key, v, int_to_float) ==
    IF IsInstanceInt(v) /\ int_to_float THEN <<Item(new_key, ToFloat(v))>>
    ELSE IF v # None THEN <<Item(new_key, v)>>
    ELSE <<>>

RECURSIVE _flatten(_, _, _, _, _, _)
RECURSIVE FlattenPairs(_, _, _, _, _, _)
RECURSIVE ListElems(_, _, _, _, _)

\* A version of the loop over a list value that keeps 'null' for a null
\* element whatever remove_null is.
ListElemsKeepNull(ws, sep, int_to_float, remove_null, flatten_list) ==
    IF ws = <<>> THEN <<>>
    ELSE LET w == Head(ws)
             rest == ListElems(Tail(ws), sep, int_to_float, remove_null, flatten_list)
         IN  IF w.t = "dict"
             THEN <<PyDict(SortedByKey(
                       _flatten(w, <<>>, sep, int_to_float, remove_null, flatten_list).items,
                       <<>>))>> \o rest
             ELSE IF w # None THEN <<w>> \o rest
             ELSE <<PyStr(<<"n", "u", "l", "l">>)>> \o rest

\* The loop over a list value: my_elems.
ListElems(ws, sep, int_to_float, remove_null, flatten_list) ==
    IF ws = <<>> THEN <<>>
    ELSE LET w == Head(ws)
             rest == ListElems(Tail(ws), sep, int_to_float, remove_null, flatten_list)
         IN  IF w.t = "dict"
             THEN <<PyDict(SortedByKey(
                       _flatten(w, <<>>, sep, int_to_float, remove_null, flatten_list).items,
                       <<>>))>> \o rest
             ELSE IF w.t = "str" THEN <<w>> \o rest
             ELSE IF w # None THEN <<w>> \o rest
             ELSE IF ~remove_null THEN <<PyStr(<<"n", "u", "l", "l">>)>> \o rest
             ELSE rest

\* The loop over d.items(): the list items before dict(items).
FlattenPairs(its, parent_key, sep, int_to_float, remove_null, flatten_list) ==
    IF its = <<>> THEN <<>>
    ELSE LET k == Head(its).k
             v == Head(its).v
             new_key == NewKey(parent_key, sep, k)
             here ==
                 IF v.t = "list"
                 THEN <<Item(new_key,
                             PyList(ListElems(Elems(v), sep, int_to_float, remove_null, flatten_list)))>>
                 ELSE IF v.t = "dict"
                 THEN _flatten(v, new_key, sep, int_to_float, remove_null, flatten_list).items
                 ELSE LeafPairs(new_key, v, int_to_float)
         IN  here \o FlattenPairs(Tail(its), parent_key, sep, int_to_float, remove_null, flatten_list)

_flatten(d, parent_key, sep, int_to_float, remove_null, flatten_list) ==
    PyDict(DictOf(FlattenPairs(d.items, parent_key, sep, int_to_float, remove_null, flatten_list), <<>>))

\* A version of _transform_jsons whose records share one items list: each
\* result also holds the entries of the records before it.
RECURSIVE _transform_jsons_shared(_, _, _, _, _)
_transform_jsons_shared(json_list, sep, int_to_float, remove_null, flatten_list) ==
    IF json_list = <<>> THEN <<>>
    ELSE LET n == Len(json_list)
             before == _transform_jsons_shared(SubSeq(json_list, 1, n - 1), sep, int_to_float,
                                               remove_null, flatten_list)
             last == _flatten(json_list[n], <<>>, sep, int_to_float, remove_null, flatten_list)
         IN  Append(before,
                    PyDict(DictOf((IF n > 1 THEN before[n - 1].items ELSE <<>>) \o last.items,
                                  <<>>)))

\* [_flatten(j, sep=sep, ...) for j in json_list]
_transform_jsons(json_list, sep, int_to_float, remove_null, flatten_list) ==
    [x \in DOMAIN json_list |->
        _flatten(json_list[x], <<>>, sep, int_to_float, remove_null, flatten_list)]

-----------------------------------------------------------------------------
(* read_jsons_chunks: the generator's frame and its steps *)

Min(a, b) == IF a <= b THEN a ELSE b

\* The size of one file_object.read.
ReadSize == 1000000

\* file_object.read(n): the next n characters, fewer at the end of the file.
ReadChars(file, n) == SubSeq(file, 1, Min(n, Len(file)))
ReadRest(file, n) == SubSeq(file, Min(n, Len(file)) + 1, Len(file))

\* The frame before the first statement runs.  pos is the index (from 1) of
\* the next character the for loop takes from chunk; k is the loop variable
\* (from 0), unbound until the loop has run once.
GenNew(file, chunk_size, read_size) ==
    [pc |-> "start", file |-> file, chunk_size |-> chunk_size, read_size |-> read_size,
     chunk |-> <<>>, pos |-> 0, k |-> 0, k_bound |-> FALSE, data |-> <<>>, i |-> 0,
     nb_bracket |-> 0, nb_quotes |-> 0, example |-> <<>>, count_escape_char |-> 0,
     resume |-> "", exc |-> ""]

GenIdle == [GenNew(<<>>, 1, 1) EXCEPT !.pc = "idle"]

\* The first read and the initial values of the locals.
GenStart(g) ==
    [g EXCEPT !.pc = "for", !.chunk = ReadChars(g.file, g.read_size),
              !.file = ReadRest(g.file, g.read_size), !.pos = 1]

\* What follows the if/elif chain for a character that is neither skipped
\* nor the end of a value: the end-of-array test, the escape count, the append.
GenAppend(g, c) ==
    IF c \in {"]"} /\ g.nb_bracket = 0 /\ g.nb_quotes % 2 = 0
       /\ (g.example = <<>> \/ g.example = <<"]">>)
    THEN [g EXCEPT !.pc = "yield", !.resume = "return"]
    ELSE [g EXCEPT !.count_escape_char = IF c = BSLASH THEN g.count_escape_char + 1 ELSE 0,
                   !.example = Append(g.example, c)]

\* A '}' that brings nb_bracket to 0 outside a string: one value is complete.
GenComplete(g, c) ==
    LET parsed == JsonLoads(Append(g.example, c))
    IN  IF ~parsed.ok
        THEN [g EXCEPT !.pc = "raised", !.exc = "JSONDecodeError",
                       !.example = Append(g.example, c)]
        ELSE IF (g.i + 1) % g.chunk_size = 0
        THEN [g EXCEPT !.pc = "yield", !.resume = "batch",
                       !.example = Append(g.example, c),
                       !.data = Append(g.data, parsed.val), !.i = g.i + 1]
        ELSE [g EXCEPT !.example = <<>>,
                       !.data = Append(g.data, parsed.val), !.i = g.i + 1]

\* One iteration of  for k, c in enumerate(chunk).
GenChar(g) ==
    LET c == g.chunk[g.pos]
        h == [g EXCEPT !.k = g.pos - 1, !.k_bound = TRUE, !.pos = g.pos + 1]
        esc_even == g.count_escape_char % 2 = 0
        q_even == g.nb_quotes % 2 = 0
    IN  IF c = QUOTE
        THEN GenAppend([h EXCEPT !.nb_quotes = IF esc_even THEN g.nb_quotes + 1
                                                ELSE g.nb_quotes], c)
        ELSE IF c = "{" /\ q_even
        THEN GenAppend([h EXCEPT !.nb_bracket = IF esc_even THEN g.nb_bracket + 1
                                                 ELSE g.nb_bracket], c)
        ELSE IF c = "}" /\ q_even
        THEN LET d == [h EXCEPT !.nb_bracket = IF esc_even THEN g.nb_bracket - 1
                                               ELSE g.nb_bracket]
             IN  IF d.nb_bracket = 0 /\ d.nb_quotes % 2 = 0
                 THEN GenComplete(d, c)
                 ELSE GenAppend(d, c)
        ELSE IF c \in {"[", ",", NL} /\ g.nb_bracket = 0 /\ q_even
        THEN h
        ELSE GenAppend(h, c)

\* A version of the refill that starts the escape count afresh in a new chunk.
GenRefillFresh(g) ==
    IF ~g.k_bound THEN [g EXCEPT !.pc = "raised", !.exc = "UnboundLocalError"]
    ELSE IF g.k = Len(g.chunk) - 1
    THEN [g EXCEPT !.chunk = ReadChars(g.file, g.read_size),
                   !.file = ReadRest(g.file, g.read_size), !.pos = 1,
                   !.count_escape_char = 0]
    ELSE IF Len(g.chunk) # 0
    THEN [g EXCEPT !.chunk = SubSeq(g.chunk, g.k + 1, Len(g.chunk)), !.pos = 1]
    ELSE [g EXCEPT !.pc = "returned"]

\* After the for loop: read the next chunk, keep the rest, or leave the while.
GenRefill(g) ==
    IF ~g.k_bound THEN [g EXCEPT !.pc = "raised", !.exc = "UnboundLocalError"]
    ELSE IF g.k = Len(g.chunk) - 1
    THEN [g EXCEPT !.chunk = ReadChars(g.file, g.read_size),
                   !.file = ReadRest(g.file, g.read_size), !.pos = 1]
    ELSE IF Len(g.chunk) # 0
    THEN [g EXCEPT !.chunk = SubSeq(g.chunk, g.k + 1, Len(g.chunk)), !.pos = 1]
    ELSE [g EXCEPT !.pc = "returned"]

\* The consumer asks for the next batch: the code after the yield.
GenResume(g) ==
    IF g.resume = "batch"
    THEN [g EXCEPT !.pc = "for", !.resume = "", !.data = <<>>, !.example = <<>>]
    ELSE [g EXCEPT !.pc = "returned", !.resume = ""]

\* One step of the running generator.
GenStep(g) ==
    IF g.pc = "start" THEN GenStart(g)
    ELSE IF g.pos <= Len(g.chunk) THEN GenChar(g)
    ELSE GenRefill(g)

\* next(generator): run to the next yield, the return or the exception.
RECURSIVE GenRun(_)
GenRun(g) ==
    IF g.pc \in {"yield", "returned", "raised"} THEN g ELSE GenRun(GenStep(g))
GenNext(g) == GenRun(IF g.pc = "yield" THEN GenResume(g) ELSE g)

\* list(generator), or the exception that ends it: the batches yielded and
\* the way the generator finished.
RECURSIVE Collect(_, _)
Collect(g, acc) ==
    LET h == GenNext(g)
    IN  IF h.pc = "yield" THEN Collect(h, Append(acc, h.data))
        ELSE [out |-> acc, pc |-> h.pc, exc |-> h.exc]

-----------------------------------------------------------------------------
(* pandas: the DataFrame built from a list of flat records, and to_csv *)

\* A missing cell of a DataFrame.
NaN == PyVal("NaN", 0, 0, <<>>, <<>>)

\* The column labels of pd.DataFrame(data): keys in order of first appearance.
RECURSIVE FirstSeen(_, _)
FirstSeen(keys, acc) ==
    IF keys = <<>> THEN acc
    ELSE FirstSeen(Tail(keys),
                   IF \E x \in DOMAIN acc : acc[x] = Head(keys) THEN acc
                   ELSE Append(acc, Head(keys)))

RECURSIVE AllKeys(_)
AllKeys(data) == IF data = <<>> THEN <<>> ELSE Keys(Head(data)) \o AllKeys(Tail(data))

\* A column of ints and floats with a float or a missing value is float64:
\* its ints become floats.  Any other mix of values keeps them as they are.
Float64Column(data, c) ==
    /\ \A r \in DOMAIN data : HasKey(data[r], c) => Get(data[r], c).t \in {"int", "float"}
    /\ \E r \in DOMAIN data : ~HasKey(data[r], c) \/ Get(data[r], c).t = "float"

FrameCell(data, r, c) ==
    IF ~HasKey(data[r], c) THEN NaN
    ELSE IF Float64Column(data, c) /\ Get(data[r], c).t = "int" THEN ToFloat(Get(data[r], c))
    ELSE Get(data[r], c)

\* pd.DataFrame(data): one row per record, cells in column order.
DataFrame(data) ==
    LET cols == FirstSeen(AllKeys(data), <<>>)
    IN  [columns |-> cols,
         rows |-> [r \in DOMAIN data |-> [x \in DOMAIN cols |-> FrameCell(data, r, cols[x])]]]

ColumnIndex(df, c) == CHOOSE x \in DOMAIN df.columns : df.columns[x] = c
HasColumn(df, c) == \E x \in DOMAIN df.columns : df.columns[x] = c

\* df[col] = "" for each missing col, then df = df[columns].
FrameSelect(df, columns) ==
    [columns |-> columns,
     rows |-> [r \in DOMAIN df.rows |->
                 [x \in DOMAIN columns |->
                     IF HasColumn(df, columns[x])
                     THEN df.rows[r][ColumnIndex(df, columns[x])]
                     ELSE PyStr(<<>>)]]]

RECURSIVE IntText(_)
IntText(n) ==
    IF n < 10 THEN <<Digits[n + 1]>> ELSE IntText(n \div 10) \o <<Digits[(n % 10) + 1]>>

\* repr(v), as str(list) and str(dict) print their members.
RECURSIVE PyRepr(_)
RECURSIVE ReprItems(_, _)
ReprItems(its, isdict) ==
    IF its = <<>> THEN <<>>
    ELSE (IF isdict THEN <<"'">> \o Head(its).k \o <<"'", ":", " ">> ELSE <<>>)
         \o PyRepr(Head(its).v)
         \o (IF Len(its) > 1 THEN <<",", " ">> ELSE <<>>)
         \o ReprItems(Tail(its), isdict)
PyRepr(v) ==
    CASE v.t = "int" -> IntText(v.n)
      [] v.t = "float" -> IntText(v.n) \o <<".">> \o IntText(v.f)
      [] v.t = "bool" -> IF v.n = 1 THEN <<"T", "r", "u", "e">> ELSE <<"F", "a", "l", "s", "e">>
      [] v.t = "str" -> <<"'">> \o v.s \o <<"'">>
      [] v.t = "NoneType" -> <<"N", "o", "n", "e">>
      [] v.t = "NaN" -> <<"n", "a", "n">>
      [] v.t = "list" -> <<"[">> \o ReprItems(v.items, FALSE) \o <<"]">>
      [] v.t = "dict" -> <<"{">> \o ReprItems(v.items, TRUE) \o <<"}">>

\* The text to_csv writes for one cell (na_rep is the empty string).
CellText(v) ==
    IF v.t = "NaN" THEN <<>>
    ELSE IF v.t = "str" THEN v.s
    ELSE PyRepr(v)

\* The data rows df.to_csv writes: one per row of the frame, in order.
CsvRows(df) ==
    [r \in DOMAIN df.rows |-> [x \in DOMAIN df.rows[r] |-> CellText(df.rows[r][x])]]

\* list.sort() of a list of str.
RECURSIVE InsertStr(_, _)
InsertStr(sorted, a) ==
    IF sorted = <<>> THEN <<a>>
    ELSE IF StrLess(a, Head(sorted)) THEN <<a>> \o sorted
    ELSE <<Head(sorted)>> \o InsertStr(Tail(sorted), a)
RECURSIVE SortStr(_, _)
SortStr(lst, acc) ==
    IF lst = <<>> THEN acc ELSE SortStr(Tail(lst), InsertStr(acc, Head(lst)))

-----------------------------------------------------------------------------
(* update_csv, update_columns_list, update_df_list *)

\* The output file: the header line (if one was written) and the data rows.
CsvEmpty == [has_header |-> FALSE, header |-> <<>>, rows |-> <<>>]

\* update_csv: the rows appended for json_list under the column list.
update_csv(csv, json_list, columns, sep, int_to_float, remove_null, flatten_list) ==
    LET data == _transform_jsons(json_list, sep, int_to_float, remove_null, flatten_list)
        df == FrameSelect(DataFrame(data), columns)
    IN  [csv EXCEPT !.rows = csv.rows \o CsvRows(df)]

Range(seq) == {seq[x] : x \in DOMAIN seq}

\* A version of update_columns_list that forgets the columns it was given.
update_columns_list_forgetful(columns_list, json_list, sep, int_to_float, remove_null, flatten_list) ==
    Range(AllKeys(_transform_jsons(json_list, sep, int_to_float, remove_null, flatten_list)))

\* update_columns_list: the members of list(set(columns_list + cols)); the
\* order of the returned list is the set's iteration order.
update_columns_list(columns_list, json_list, sep, int_to_float, remove_null, flatten_list) ==
    LET data == _transform_jsons(json_list, sep, int_to_float, remove_null, flatten_list)
    IN  Range(columns_list) \cup Range(AllKeys(data))

\* The lists of columns_list + cols when no set is taken: every member, some
\* possibly more than once.
OrderingsWithRepeats(S) ==
    {q \in UNION {[1..n -> S] : n \in Cardinality(S)..(Cardinality(S) + 1)} :
        \A c \in S : \E x \in DOMAIN q : q[x] = c}

\* The lists a set can be turned into.
Orderings(S) ==
    {q \in [1..Cardinality(S) -> S] : \A x, y \in 1..Cardinality(S) : q[x] = q[y] => x = y}

\* update_df_list([], json_list, ...) and pd.concat of its one frame.
update_df_list(json_list, sep, int_to_float, remove_null, flatten_list) ==
    DataFrame(_transform_jsons(json_list, sep, int_to_float, remove_null, flatten_list))

\* The lines of a text file, each with its newline, as  for line in f  gives them.
RECURSIVE SplitLines(_, _)
SplitLines(text, cur) ==
    IF text = <<>> THEN (IF cur = <<>> THEN <<>> ELSE <<cur>>)
    ELSE IF Head(text) = NL THEN <<Append(cur, NL)>> \o SplitLines(Tail(text), <<>>)
    ELSE SplitLines(Tail(text), Append(cur, Head(text)))

-----------------------------------------------------------------------------
(* get_columns, get_dataframe and main: the frame of a scan and its steps *)

\* chunk_size, and the period of the flush in the line loops (50000 in the
\* code), scaled down.
ChunkSize == 2

\* The parameters the definitions take and the arguments the call sites pass.
GetColumnsParams == 7
MainGetColumnsArgs == 6
UpdateCsvParams == 7
DfUpdateCsvArgs == 6

\* The frame of a scan.  fn is the function running, caller who called it;
\* files are the contents of list_data_paths; fi is the index (from 1) of
\* data_file; lines and li the lines of the open file and how many the loop
\* has taken; columns is get_dataframe's parameter (<<>> for None: the code
\* only tests its truth); open the indices of the files opened and not closed
\* by the code (by the end of a with block; the code never calls close);
\* outcomes the results of the runs of main already over.
RunNew(fn, caller, files, is_json, streaming, columns) ==
    [pc |-> IF fn = "main" THEN "main" ELSE "file", fn |-> fn, caller |-> caller,
     files |-> files, is_json |-> is_json, streaming |-> streaming,
     sep |-> <<".">>, int_to_float |-> FALSE, remove_null |-> FALSE, flatten_list |-> FALSE,
     fi |-> 1, lines |-> <<>>, li |-> 0, j |-> 0, json_list |-> <<>>,
     columns_list |-> <<>>, columns |-> columns, log |-> <<>>, csv |-> CsvEmpty,
     df |-> DataFrame(<<>>), open |-> {}, exc |-> "", outcomes |-> <<>>]

RunIdle == [RunNew("none", "none", <<>>, FALSE, FALSE, <<>>) EXCEPT !.pc = "idle"]

\* An exception leaves the function; a  with open(...)  block closes its file.
Raise(r, exc) ==
    [r EXCEPT !.pc = "raised", !.exc = exc,
              !.open = IF r.is_json THEN r.open ELSE r.open \ {r.fi}]

\* logger.info("Json in line " + str(i) + " (in file: " + data_file + ") ...")
SkipMessage(i, j, data_file) == [line |-> i, file |-> data_file]

\* The for loop takes the next data_file: json_list = [] and the file is opened.
OpenFile(r) ==
    IF r.is_json
    THEN [r EXCEPT !.json_list = <<>>, !.open = r.open \cup {r.fi}, !.pc = "batches"]
    ELSE [r EXCEPT !.json_list = <<>>, !.open = r.open \cup {r.fi}, !.pc = "lines",
                   !.lines = SplitLines(r.files[r.fi], <<>>), !.li = 0]

\* try: json_list.append(json.loads(line))  except: log and continue
TakeLine(r, i, line) ==
    LET parsed == JsonLoads(line)
    IN  IF parsed.ok THEN [r EXCEPT !.json_list = Append(r.json_list, parsed.val)]
        ELSE [r EXCEPT !.log = Append(r.log, SkipMessage(i, r.j, r.fi))]

ColsOpenFile ==
    /\ run.fn = "get_columns" /\ run.pc = "file" /\ run.fi <= Len(run.files)
    /\ run' = OpenFile(run)
    /\ gen' = IF run.is_json THEN GenNew(run.files[run.fi], ChunkSize, ReadSize) ELSE gen
    /\ UNCHANGED <<input, out, fl>>

\* One iteration of  for x in read_jsons_chunks(f, chunk_size=chunk_size).
ColsBatch ==
    /\ run.fn = "get_columns" /\ run.pc = "batches"
    /\ LET g == GenNext(gen)
       IN  /\ gen' = g
           /\ IF g.pc = "yield"
              THEN IF run.j # 0 /\ run.j % ChunkSize = 0
                   THEN \E cl \in Orderings(update_columns_list(run.columns_list, run.json_list,
                                   run.sep, run.int_to_float, run.remove_null, run.flatten_list)) :
                           run' = [run EXCEPT !.columns_list = cl, !.json_list = g.data,
                                              !.j = run.j + ChunkSize]
                   ELSE run' = [run EXCEPT !.json_list = run.json_list \o g.data,
                                           !.j = run.j + ChunkSize]
              ELSE IF g.pc = "returned" THEN run' = [run EXCEPT !.pc = "endfile"]
              ELSE run' = Raise(run, g.exc)
    /\ UNCHANGED <<input, out, fl>>

\* A version of the line loop of get_columns without the periodic update.
ColsLineNoFlush ==
    /\ run.fn = "get_columns" /\ run.pc = "lines" /\ run.li < Len(run.lines)
    /\ run' = TakeLine([run EXCEPT !.j = run.j + 1, !.li = run.li + 1],
                       run.li, run.lines[run.li + 1])
    /\ UNCHANGED <<gen, input, out, fl>>

\* One iteration of  for i, line in enumerate(f).
ColsLine ==
    /\ run.fn = "get_columns" /\ run.pc = "lines" /\ run.li < Len(run.lines)
    /\ LET r == [run EXCEPT !.j = run.j + 1, !.li = run.li + 1]
       IN  IF r.j % ChunkSize = 0
           THEN \E cl \in Orderings(update_columns_list(run.columns_list, run.json_list,
                           run.sep, run.int_to_float, run.remove_null, run.flatten_list)) :
                   run' = TakeLine([r EXCEPT !.columns_list = cl, !.json_list = <<>>],
                                   run.li, run.lines[run.li + 1])
           ELSE run' = TakeLine(r, run.li, run.lines[run.li + 1])
    /\ UNCHANGED <<gen, input, out, fl>>

\* The end of the with block: the file is closed.
ColsLinesEnd ==
    /\ run.fn = "get_columns" /\ run.pc = "lines" /\ run.li = Len(run.lines)
    /\ run' = [run EXCEPT !.pc = "endfile", !.open = run.open \ {run.fi}]
    /\ UNCHANGED <<gen, input, out, fl>>

\* if (len(json_list) > 0): update the columns; then the next data_file.
ColsEndFile ==
    /\ run.fn = "get_columns" /\ run.pc = "endfile"
    /\ IF Len(run.json_list) > 0
       THEN \E cl \in Orderings(update_columns_list(run.columns_list, run.json_list,
                       run.sep, run.int_to_float, run.remove_null, run.flatten_list)) :
               run' = [run EXCEPT !.columns_list = cl, !.fi = run.fi + 1, !.pc = "file"]
       ELSE run' = [run EXCEPT !.fi = run.fi + 1, !.pc = "file"]
    /\ UNCHANGED <<gen, input, out, fl>>

\* return columns_list; in main: sort it, write the header, call get_dataframe.
ColsReturn ==
    /\ run.fn = "get_columns" /\ run.pc = "file" /\ run.fi > Len(run.files)
    /\ IF run.caller = "main"
       THEN LET sorted == SortStr(run.columns_list, <<>>)
            IN  run' = [run EXCEPT !.fn = "get_dataframe", !.columns_list = sorted,
                                   !.columns = sorted,
                                   !.csv = [has_header |-> TRUE, header |-> sorted, rows |-> <<>>],
                                   !.json_list = <<>>, !.j = 0, !.fi = 1, !.pc = "file"]
       ELSE run' = [run EXCEPT !.pc = "returned"]
    /\ UNCHANGED <<gen, input, out, fl>>

\* update_csv(path_csv, json_list, columns, sep, int_to_float, remove_null) as
\* get_dataframe calls it, then the clearing of json_list.
DfUpdateCsv(r) ==
    IF DfUpdateCsvArgs # UpdateCsvParams THEN Raise(r, "TypeError")
    ELSE [r EXCEPT !.csv = update_csv(r.csv, r.json_list, r.columns, r.sep, r.int_to_float,
                                      r.remove_null, r.flatten_list),
                   !.json_list = <<>>]

DfOpenFile ==
    /\ run.fn = "get_dataframe" /\ run.pc = "file" /\ run.fi <= Len(run.files)
    /\ run' = OpenFile(run)
    /\ gen' = IF run.is_json THEN GenNew(run.files[run.fi], ChunkSize, ReadSize) ELSE gen
    /\ UNCHANGED <<input, out, fl>>

DfBatch ==
    /\ run.fn = "get_dataframe" /\ run.pc = "batches"
    /\ LET g == GenNext(gen)
           flushed == IF run.j # 0 /\ run.j % ChunkSize = 0 /\ run.columns # <<>>
                      THEN DfUpdateCsv(run) ELSE run
       IN  /\ gen' = g
           /\ IF g.pc = "yield"
              THEN IF flushed.pc = "raised" THEN run' = flushed
                   ELSE run' = [flushed EXCEPT !.json_list = flushed.json_list \o g.data,
                                               !.j = run.j + ChunkSize]
              ELSE IF g.pc = "returned" THEN run' = [run EXCEPT !.pc = "endfile"]
              ELSE run' = Raise(run, g.exc)
    /\ UNCHANGED <<input, out, fl>>

DfLine ==
    /\ run.fn = "get_dataframe" /\ run.pc = "lines" /\ run.li < Len(run.lines)
    /\ LET r == [run EXCEPT !.j = run.j + 1, !.li = run.li + 1]
           flushed == IF r.j % ChunkSize = 0 /\ run.columns # <<>> THEN DfUpdateCsv(r) ELSE r
       IN  IF flushed.pc = "raised" THEN run' = flushed
           ELSE run' = TakeLine(flushed, run.li, run.lines[run.li + 1])
    /\ UNCHANGED <<gen, input, out, fl>>

DfLinesEnd ==
    /\ run.fn = "get_dataframe" /\ run.pc = "lines" /\ run.li = Len(run.lines)
    /\ run' = [run EXCEPT !.pc = "endfile", !.open = run.open \ {run.fi}]
    /\ UNCHANGED <<gen, input, out, fl>>

\* if (len(json_list) > 0): if columns: update_csv(...); json_list.clear()
DfEndFile ==
    /\ run.fn = "get_dataframe" /\ run.pc = "endfile"
    /\ LET flushed == IF Len(run.json_list) > 0 /\ run.columns # <<>>
                      THEN DfUpdateCsv(run) ELSE run
       IN  IF flushed.pc = "raised" THEN run' = flushed
           ELSE run' = [flushed EXCEPT !.fi = run.fi + 1, !.pc = "file"]
    /\ UNCHANGED <<gen, input, out, fl>>

\* if not columns: build the frame of json_list, sort its columns, return it;
\* in main: if not opt.streaming: df.to_csv(opt.path_output, ...).
DfReturn ==
    /\ run.fn = "get_dataframe" /\ run.pc = "file" /\ run.fi > Len(run.files)
    /\ LET df == update_df_list(run.json_list, run.sep, run.int_to_float,
                                run.remove_null, run.flatten_list)
           sorted == FrameSelect(df, SortStr(df.columns, <<>>))
           r == IF run.columns = <<>> THEN [run EXCEPT !.df = sorted, !.pc = "returned"]
                ELSE [run EXCEPT !.pc = "returned"]
       IN  IF run.caller = "main" /\ ~run.streaming
           THEN run' = [r EXCEPT !.csv = [has_header |-> TRUE, header |-> r.df.columns,
                                          rows |-> CsvRows(r.df)]]
           ELSE run' = r
    /\ UNCHANGED <<gen, input, out, fl>>

\* main: with --streaming, get_columns(data, opt.sep, logger, opt.int_to_float,
\* opt.remove_null, opt.is_json); without, get_dataframe(data, columns=None, ...).
MainCall ==
    /\ run.fn = "main" /\ run.pc = "main"
    /\ IF run.streaming
       THEN IF MainGetColumnsArgs # GetColumnsParams THEN run' = Raise(run, "TypeError")
            ELSE run' = [run EXCEPT !.fn = "get_columns", !.pc = "file"]
       ELSE run' = [run EXCEPT !.fn = "get_dataframe", !.pc = "file"]
    /\ UNCHANGED <<gen, input, out, fl>>

\* The same files and options are given to main again, without --streaming.
MainAgain ==
    /\ run.caller = "main" /\ run.pc \in {"returned", "raised"} /\ run.streaming
    /\ run' = [RunNew("main", "main", run.files, run.is_json, FALSE, <<>>)
                  EXCEPT !.outcomes = Append(run.outcomes,
                                             [streaming |-> run.streaming, exc |-> run.exc,
                                              csv |-> run.csv])]
    /\ UNCHANGED <<gen, input, out, fl>>

NextScan ==
    \/ ColsOpenFile \/ ColsBatch \/ ColsLine \/ ColsLinesEnd \/ ColsEndFile \/ ColsReturn
    \/ DfOpenFile \/ DfBatch \/ DfLine \/ DfLinesEnd \/ DfEndFile \/ DfReturn
    \/ MainCall \/ MainAgain

-----------------------------------------------------------------------------
(* The objects and configurations _flatten is run on *)

\* The most entries (key/value pairs and list elements, nested ones counted)
\* of an object handed to _flatten.
MaxEntries == 3

FlatKeys == {<<"a">>, <<"b">>}
Leaves == {None, PyBool(TRUE), PyInt(5), PyFloat(1, 5), PyStr(<<"x">>)}
Seps == {<<".">>, <<"_">>}

RECURSIVE Entries(_)
RECURSIVE EntriesOfItems(_)
EntriesOfItems(its) ==
    IF its = <<>> THEN 0 ELSE 1 + Entries(Head(its).v) + EntriesOfItems(Tail(its))
Entries(v) == EntriesOfItems(v.items)

RECURSIVE ValuesUpTo(_)
RECURSIVE DictItemsUpTo(_, _)
RECURSIVE ListItemsUpTo(_)
\* Every item sequence with distinct keys of `keys` and at most b entries.
DictItemsUpTo(b, keys) ==
    {<<>>} \cup
    (IF b = 0 THEN {}
     ELSE UNION {UNION {{<<Item(k, v)>> \o rest :
                           rest \in DictItemsUpTo(b - 1 - Entries(v), keys \ {k})} :
                        v \in ValuesUpTo(b - 1)} :
                 k \in keys})
ListItemsUpTo(b) ==
    {<<>>} \cup
    (IF b = 0 THEN {}
     ELSE UNION {{<<Item(<<>>, v)>> \o rest : rest \in ListItemsUpTo(b - 1 - Entries(v))} :
                 v \in ValuesUpTo(b - 1)})
ValuesUpTo(b) ==
    Leaves \cup {PyDict(its) : its \in DictItemsUpTo(b, FlatKeys)}
           \cup {PyVal("list", 0, 0, <<>>, its) : its \in ListItemsUpTo(b)}

FlatInputs == {PyDict(its) : its \in DictItemsUpTo(MaxEntries, FlatKeys)}

FlatIdle ==
    [pc |-> "idle", d |-> PyDict(<<>>), sep |-> <<".">>, int_to_float |-> FALSE,
     remove_null |-> FALSE, flatten_list |-> FALSE, result |-> PyDict(<<>>)]
InputIdle == [text |-> <<>>, shape |-> "none", recs |-> <<>>]

InitFlatten ==
    /\ fl \in [pc : {"call"}, d : FlatInputs, sep : Seps, int_to_float : BOOLEAN,
               remove_null : BOOLEAN, flatten_list : BOOLEAN, result : {PyDict(<<>>)}]
    /\ gen = GenIdle
    /\ input = InputIdle
    /\ out = <<>>
    /\ run = RunIdle

\* One call _flatten(d, sep=sep, int_to_float=..., remove_null=..., flatten_list=...).
FlattenCall ==
    /\ fl.pc = "call"
    /\ fl' = [fl EXCEPT !.pc = "done",
                        !.result = _flatten(fl.d, <<>>, fl.sep, fl.int_to_float,
                                            fl.remove_null, fl.flatten_list)]
    /\ UNCHANGED <<gen, input, out, run>>

NextFlatten == FlattenCall
SpecFlatten == InitFlatten /\ [][NextFlatten]_vars

\* The most elements of a list value.
MaxList == 3

\* The elements of a list value: scalars, null, objects (one with its keys out
\* of order, one nested, one with a null field) and a list.
ListElements ==
    {PyStr(<<"x">>), PyInt(5), PyBool(TRUE), None,
     PyDict(<<Item(<<"b">>, PyInt(5)), Item(<<"a">>, PyStr(<<"x">>))>>),
     PyDict(<<Item(<<"b">>, PyDict(<<Item(<<"a">>, PyInt(5))>>)), Item(<<"a">>, None)>>),
     PyList(<<PyInt(5)>>)}
ListValues == {PyList(ws) : ws \in UNION {[1..m -> ListElements] : m \in 0..MaxList}}

\* The objects holding a list: at top level, and under a nested key beside a
\* scalar.
ListInputs ==
    {PyDict(<<Item(<<"a">>, v)>>) : v \in ListValues}
    \cup {PyDict(<<Item(<<"b">>, PyDict(<<Item(<<"a">>, v), Item(<<"b">>, PyInt(5))>>))>>) :
             v \in ListValues}

InitFlattenList ==
    /\ fl \in [pc : {"call"}, d : ListInputs, sep : Seps, int_to_float : BOOLEAN,
               remove_null : BOOLEAN, flatten_list : BOOLEAN, result : {PyDict(<<>>)}]
    /\ gen = GenIdle
    /\ input = InputIdle
    /\ out = <<>>
    /\ run = RunIdle

SpecFlattenList == InitFlattenList /\ [][NextFlatten]_vars

-----------------------------------------------------------------------------
(* The tokenizer run on its own: list(read_jsons_chunks(f, chunk_size)) *)

\* The longest text of characters drawn freely from TokAlphabet.
MaxText == 5
\* The smaller read sizes tried, so that chunk boundaries fall inside a text.
MaxRead == 2
\* The largest chunk_size (records per yielded batch) tried.
MaxChunk == 2
\* The most records of a well-formed input.
MaxRecs == 2

TokAlphabet == {"{", "}", QUOTE, BSLASH, ",", "]"}
ReadSizes == (1..MaxRead) \cup {ReadSize}

RECURSIVE TextsUpTo(_, _)
TextsUpTo(n, alphabet) ==
    IF n = 0 THEN {<<>>}
    ELSE LET shorter == TextsUpTo(n - 1, alphabet)
         IN  shorter \cup {Append(t, c) : t \in {u \in shorter : Len(u) = n - 1}, c \in alphabet}

TokStart ==
    /\ gen.pc = "start"
    /\ gen' = GenStart(gen)
    /\ UNCHANGED <<input, out, fl, run>>

TokChar ==
    /\ gen.pc = "for"
    /\ gen.pos <= Len(gen.chunk)
    /\ gen' = GenChar(gen)
    /\ UNCHANGED <<input, out, fl, run>>

TokRefill ==
    /\ gen.pc = "for"
    /\ gen.pos > Len(gen.chunk)
    /\ gen' = GenRefill(gen)
    /\ UNCHANGED <<input, out, fl, run>>

\* The consumer receives the yielded batch and asks for the next one.
TokDeliver ==
    /\ gen.pc = "yield"
    /\ out' = Append(out, gen.data)
    /\ gen' = GenResume(gen)
    /\ UNCHANGED <<input, fl, run>>

NextTok == TokStart \/ TokChar \/ TokRefill \/ TokDeliver

InitTok ==
    /\ \E t \in TextsUpTo(MaxText, TokAlphabet) :
          input = [text |-> t, shape |-> "text", recs |-> <<>>]
    /\ \E cs \in 1..MaxChunk, rs \in ReadSizes : gen = GenNew(input.text, cs, rs)
    /\ out = <<>>
    /\ fl = FlatIdle
    /\ run = RunIdle

SpecTok == InitTok /\ [][NextTok]_vars

\* Well-formed top-level objects: the text of each and the value it denotes.
JsonRecords ==
    { [text |-> <<"{", QUOTE, "a", QUOTE, ":", "1", "}">>,
       val |-> PyDict(<<Item(<<"a">>, PyInt(1))>>)],
      [text |-> <<"{", QUOTE, "a", QUOTE, ":", " ", QUOTE, "x", "}", "y", QUOTE, ",", " ",
                  QUOTE, "b", QUOTE, ":", " ", "1", "}">>,
       val |-> PyDict(<<Item(<<"a">>, PyStr(<<"x", "}", "y">>)), Item(<<"b">>, PyInt(1))>>)],
      [text |-> <<"{", QUOTE, "a", QUOTE, ":", "{", QUOTE, "b", QUOTE, ":", QUOTE,
                  BSLASH, BSLASH, BSLASH, QUOTE, "{", QUOTE, "}", "}">>,
       val |-> PyDict(<<Item(<<"a">>,
                   PyDict(<<Item(<<"b">>, PyStr(<<BSLASH, QUOTE, "{">>))>>))>>)],
      [text |-> <<"{", QUOTE, "a", QUOTE, ":", "[", "{", QUOTE, "b", QUOTE, ":", "2", "}",
                  ",", QUOTE, "]", QUOTE, "]", "}">>,
       val |-> PyDict(<<Item(<<"a">>,
                   PyList(<<PyDict(<<Item(<<"b">>, PyInt(2))>>), PyStr(<<"]">>)>>))>>)] }

RECURSIVE Join(_, _)
Join(texts, sep) ==
    IF texts = <<>> THEN <<>>
    ELSE IF Len(texts) = 1 THEN texts[1]
    ELSE texts[1] \o sep \o Join(Tail(texts), sep)

\* The three shapes of an input file holding the records recs.
Shapes == {"lines", "array", "single"}
RenderTexts(shape, texts) ==
    CASE shape = "lines" -> Join([x \in DOMAIN texts |-> texts[x] \o <<NL>>], <<>>)
      [] shape = "array" -> <<"[">> \o Join(texts, <<",">>) \o <<"]">>
      [] shape = "single" -> texts[1]
Render(shape, recs) == RenderTexts(shape, [x \in DOMAIN recs |-> recs[x].text])

RecSeqs == UNION {[1..n -> JsonRecords] : n \in 0..MaxRecs}

InitTokJson ==
    /\ \E recs \in RecSeqs, shape \in Shapes :
          /\ shape = "single" => Len(recs) = 1
          /\ shape = "lines" => Len(recs) >= 1
          /\ input = [text |-> Render(shape, recs), shape |-> shape,
                       recs |-> [x \in DOMAIN recs |-> recs[x].val]]
    /\ \E cs \in 1..MaxChunk, rs \in ReadSizes : gen = GenNew(input.text, cs, rs)
    /\ out = <<>>
    /\ fl = FlatIdle
    /\ run = RunIdle

SpecTokJson == InitTokJson /\ [][NextTok]_vars

-----------------------------------------------------------------------------
(* The scans run on files: get_columns, get_dataframe and main *)

\* The most lines (or array elements) of all the files of one run together.
MaxLines == 3
\* The most files of list_data_paths.
MaxFiles == 2

\* The texts a line (or an array element) is drawn from: two objects with
\* different keys and one text that json.loads rejects.
LineX == <<"{", QUOTE, "x", QUOTE, ":", "1", "}">>
LineY == <<"{", QUOTE, "y", QUOTE, ":", "2", "}">>
LineBad == <<"{", "x", "}">>
LineTexts == {LineX, LineY, LineBad}

\* The ways of cutting len lines into n consecutive files (empty ones too).
Cuts(n, len) ==
    {c \in [1..(n - 1) -> 0..len] : \A x, y \in 1..(n - 1) : x <= y => c[x] <= c[y]}
FilesOf(all, n, c) ==
    [f \in 1..n |-> SubSeq(all, (IF f = 1 THEN 0 ELSE c[f - 1]) + 1,
                                IF f = n THEN Len(all) ELSE c[f])]

\* The column lists handed to get_dataframe: none (full-memory) or a frozen one.
ColumnChoices == {<<>>, <<<<"x">>, <<"y">>>>}

InitScan ==
    /\ \E all \in UNION {[1..m -> LineTexts] : m \in 0..MaxLines}, n \in 1..MaxFiles,
          is_json \in BOOLEAN, shape \in {"lines", "array"} :
          \E c \in Cuts(n, Len(all)) :
             /\ ~is_json => shape = "lines"
             /\ input = [text |-> <<>>, shape |-> shape,
                         recs |-> [f \in 1..n |-> FilesOf(all, n, c)[f]]]
             /\ \E fn \in {"get_columns", "get_dataframe", "main"}, columns \in ColumnChoices :
                   /\ fn # "get_dataframe" => columns = <<>>
                   /\ run = RunNew(fn, IF fn = "main" THEN "main" ELSE "user",
                                   [f \in 1..n |-> RenderTexts(shape, FilesOf(all, n, c)[f])],
                                   is_json, fn = "main", columns)
    /\ gen = GenIdle
    /\ out = <<>>
    /\ fl = FlatIdle

SpecScan == InitScan /\ [][NextScan]_vars

-----------------------------------------------------------------------------
(* update_csv called on a batch of records *)

\* The most records of a batch.
MaxBatch == 2

\* The values of a record's fields, and the records: objects with the keys
\* x and y, each present or not, one of them with a nested object.
CellValues == {PyInt(1), PyInt(2), PyStr(<<"a">>)}
WriteRecords ==
    {PyDict(<<>>), PyDict(<<Item(<<"x">>, PyDict(<<Item(<<"z">>, PyInt(1))>>))>>)}
    \cup {PyDict(<<Item(<<"x">>, v)>>) : v \in CellValues}
    \cup {PyDict(<<Item(<<"y">>, v)>>) : v \in CellValues}
    \cup {PyDict(<<Item(<<"x">>, v), Item(<<"y">>, w)>>) : v \in CellValues, w \in CellValues}
WriteColumns == {<<<<"x">>, <<"y">>>>, <<<<"y">>, <<"x">>>>, <<<<"x">>>>}

InitWrite ==
    /\ \E json_list \in UNION {[1..m -> WriteRecords] : m \in 0..MaxBatch},
          columns \in WriteColumns, int_to_float \in BOOLEAN :
          run = [RunNew("update_csv", "user", <<>>, FALSE, TRUE, columns)
                    EXCEPT !.pc = "call", !.json_list = json_list,
                           !.int_to_float = int_to_float,
                           !.csv = [has_header |-> TRUE, header |-> columns, rows |-> <<>>]]
    /\ gen = GenIdle
    /\ input = InputIdle
    /\ out = <<>>
    /\ fl = FlatIdle

\* One call update_csv(path_csv, json_list, columns, sep, int_to_float,
\* remove_null, flatten_list) with all seven arguments.
WriteCall ==
    /\ run.fn = "update_csv" /\ run.pc = "call"
    /\ run' = [run EXCEPT !.pc = "returned",
                          !.csv = update_csv(run.csv, run.json_list, run.columns, run.sep,
                                             run.int_to_float, run.remove_null,
                                             run.flatten_list)]
    /\ UNCHANGED <<gen, input, out, fl>>

NextWrite == WriteCall
SpecWrite == InitWrite /\ [][NextWrite]_vars

-----------------------------------------------------------------------------
(* update_columns_list folded over batches of records *)

\* The most calls of update_columns_list in one fold.
MaxFolds == 2

\* The records of a batch: no key, one key each, and a nested object.
ColRecords ==
    {PyDict(<<>>), PyDict(<<Item(<<"x">>, PyInt(1))>>), PyDict(<<Item(<<"y">>, PyInt(2))>>),
     PyDict(<<Item(<<"x">>, PyDict(<<Item(<<"z">>, PyInt(1))>>))>>)}
ColBatches == UNION {[1..m -> ColRecords] : m \in 0..MaxBatch}
\* The column lists the fold starts from.
ColumnLists == {<<>>, <<<<"y">>>>, <<<<"y">>, <<"x">>>>}

\* run.columns keeps the list the fold started from, out the records folded.
InitColumns ==
    /\ \E columns \in ColumnLists :
          run = [RunNew("update_columns_list", "user", <<>>, FALSE, FALSE, columns)
                    EXCEPT !.pc = "call", !.columns_list = columns]
    /\ gen = GenIdle
    /\ input = InputIdle
    /\ out = {}
    /\ fl = FlatIdle

\* columns_list = update_columns_list(columns_list, json_list, sep, ...)
ColumnsCall ==
    /\ run.fn = "update_columns_list" /\ run.pc = "call" /\ run.fi <= MaxFolds
    /\ \E json_list \in ColBatches :
          /\ \E cl \in Orderings(update_columns_list(run.columns_list, json_list, run.sep,
                          run.int_to_float, run.remove_null, run.flatten_list)) :
                run' = [run EXCEPT !.columns_list = cl, !.json_list = json_list,
                                   !.fi = run.fi + 1]
          /\ out' = out \cup Range(json_list)
    /\ UNCHANGED <<gen, input, fl>>

NextColumns == ColumnsCall
SpecColumns == InitColumns /\ [][NextColumns]_vars

-----------------------------------------------------------------------------
(* _transform_jsons called on the batches a list of records is split into *)

\* The records of the list: those of WriteRecords, one with a null and one
\* with a list.
TransformRecords ==
    WriteRecords \cup
    {PyDict(<<Item(<<"x">>, None)>>),
     PyDict(<<Item(<<"y">>, PyList(<<PyDict(<<Item(<<"b">>, PyInt(1))>>), None>>)),
              Item(<<"x">>, PyBool(TRUE))>>)}

\* run.json_list is the whole list, run.li the number of records already
\* handed over in a batch, out the results the calls returned, in order.
InitTransform ==
    /\ \E json_list \in UNION {[1..m -> TransformRecords] : m \in 0..MaxBatch},
          int_to_float \in BOOLEAN, remove_null \in BOOLEAN :
          run = [RunNew("_transform_jsons", "user", <<>>, FALSE, FALSE, <<>>)
                    EXCEPT !.pc = "call", !.json_list = json_list,
                           !.int_to_float = int_to_float, !.remove_null = remove_null]
    /\ gen = GenIdle
    /\ input = InputIdle
    /\ out = <<>>
    /\ fl = FlatIdle

\* One call _transform_jsons(batch, ...) on the next n records of the list.
TransformCall ==
    /\ run.fn = "_transform_jsons" /\ run.pc = "call"
    /\ \E n \in 0..(Len(run.json_list) - run.li) :
          /\ n = 0 => run.li = Len(run.json_list)
          /\ out' = out \o _transform_jsons(SubSeq(run.json_list, run.li + 1, run.li + n),
                                            run.sep, run.int_to_float, run.remove_null,
                                            run.flatten_list)
          /\ run' = [run EXCEPT !.li = run.li + n,
                                !.pc = IF n = 0 THEN "returned" ELSE "call"]
    /\ UNCHANGED <<gen, input, fl>>

NextTransform == TransformCall
SpecTransform == InitTransform /\ [][NextTransform]_vars

-----------------------------------------------------------------------------
(* The tokenizer fed by reads of different sizes *)

\* The longest text of free characters whose reads are cut at every size.
MaxCut == 4

\* The text is a short text of free characters or a rendering of well-formed
\* objects; each read returns read_size characters (fewer at the end).
InitCut ==
    /\ \/ \E t \in TextsUpTo(MaxCut, TokAlphabet) :
             input = [text |-> t, shape |-> "text", recs |-> <<>>]
       \/ \E recs \in RecSeqs, shape \in Shapes :
             /\ shape = "single" => Len(recs) = 1
             /\ shape = "lines" => Len(recs) >= 1
             /\ input = [text |-> Render(shape, recs), shape |-> shape,
                          recs |-> [x \in DOMAIN recs |-> recs[x].val]]
    /\ \E cs \in 1..MaxChunk, rs \in ReadSizes : gen = GenNew(input.text, cs, rs)
    /\ out = <<>>
    /\ fl = FlatIdle
    /\ run = RunIdle

SpecCut == InitCut /\ [][NextTok]_vars

-----------------------------------------------------------------------------
(* Claims about the tokenizer *)

\* The number of characters of the text the for loop has taken so far.
Consumed == Len(input.text) - Len(gen.file) - (Len(gen.chunk) - (gen.pos - 1))

RECURSIVE BackslashesBefore(_, _)
BackslashesBefore(t, q) ==
    IF q > 1 /\ t[q - 1] = BSLASH THEN 1 + BackslashesBefore(t, q - 1) ELSE 0

\* A double quote preceded by an even number of consecutive backslashes.
UnescapedQuote(t, q) == t[q] = QUOTE /\ BackslashesBefore(t, q) % 2 = 0

\* The character at index n lies between two unescaped double quotes.
InStringLiteral(t, n) ==
    /\ Cardinality({q \in 1..(n - 1) : UnescapedQuote(t, q)}) % 2 = 1
    /\ \E q \in (n + 1)..Len(t) : UnescapedQuote(t, q)

RECURSIVE Concat(_)
Concat(batches) ==
    IF batches = <<>> THEN <<>> ELSE Head(batches) \o Concat(Tail(batches))

\* C1: a '{' or '}' inside a JSON string literal (between two unescaped double
\* quotes, a quote after an odd number of backslashes being escaped) never
\* changes the nesting depth and never ends a value, for every input text.
C1_BraceInStringInert ==
    [][(/\ TokChar
        /\ gen.chunk[gen.pos] \in {"{", "}"}
        /\ InStringLiteral(input.text, Consumed + 1))
       => (/\ gen'.nb_bracket = gen.nb_bracket
           /\ gen'.data = gen.data
           /\ gen'.pc = "for")]_vars

\* C2: for an input of well-formed top-level objects in any of the three
\* shapes, the batches yielded, concatenated, are exactly the objects of the
\* input, each once and in input order, whether the input ends at ']' or not.
C2_AllObjectsDelivered ==
    gen.pc \in {"returned", "raised"} => (gen.pc = "returned" /\ Concat(out) = input.recs)

\* C14: the output does not depend on where the read buffers end: for every
\* text and every size of read, the generator yields the same batches and
\* finishes the same way as when the whole text comes in one read, and each
\* iteration of the for loop takes the character after the one before it, none
\* twice and none skipped.
C14_BufferCutsInvisible ==
    /\ [](gen.pc \in {"returned", "raised"} =>
            [out |-> out, pc |-> gen.pc, exc |-> gen.exc]
               = Collect(GenNew(input.text, gen.chunk_size, ReadSize), <<>>))
    /\ [][gen.pc = "for" =>
            IF gen.pos <= Len(gen.chunk)
            THEN /\ gen.chunk[gen.pos] = input.text[Consumed + 1]
                 /\ Consumed' = Consumed + 1
            ELSE Consumed' = Consumed]_vars

\* An object whose string holds an escaped quote and a brace was delivered
\* after reads of one character each.
C14_Witness ==
    /\ gen.pc = "returned" /\ gen.read_size = 1
    /\ Len(out) = 1 /\ Len(out[1]) = 1
    /\ out[1][1] = PyDict(<<Item(<<"a">>,
                       PyDict(<<Item(<<"b">>, PyStr(<<BSLASH, QUOTE, "{">>))>>))>>)

\* C15: when the input ends (end of stream, or the closing ']' at depth 0)
\* while the accumulator example is not empty, the tokenizer reports an error
\* instead of ending normally with the fragment dropped, and the records
\* completed before that point have been delivered.
C15_FragmentReported ==
    (gen.pc \in {"returned", "raised"} /\ gen.exc # "JSONDecodeError" /\ gen.example # <<>>) =>
        (gen.pc = "raised" /\ Len(Concat(out)) = gen.i)

\* C20: on every finite input of well-formed content, the empty input
\* included, the generator finishes without raising.
C20_EndsWithoutRaising ==
    (input.shape # "text" \/ input.text = <<>>) => gen.pc # "raised"

-----------------------------------------------------------------------------
(* Claims about _flatten *)

\* The leaves of d reached through objects only: the chain of keys and the value.
RECURSIVE LeafChains(_, _)
LeafChains(d, prefix) ==
    UNION {LET it == d.items[x]
           IN  IF it.v.t = "dict" THEN LeafChains(it.v, Append(prefix, it.k))
               ELSE IF it.v.t = "list" THEN {}
               ELSE {[chain |-> Append(prefix, it.k), v |-> it.v]} :
           x \in DOMAIN d.items}

RECURSIVE HasList(_)
HasList(v) == v.t = "list" \/ \E x \in DOMAIN v.items : HasList(v.items[x].v)

NullMarkers == {None, PyStr(<<"n", "u", "l", "l">>)}

\* C5: for every key whose value is null, at any object nesting level outside
\* arrays: with remove_null false the result maps the key's path to the null
\* marker, with remove_null true the path is absent.
C5_NullKeyPolicy ==
    fl.pc = "done" =>
        \A lf \in LeafChains(fl.d, <<>>) :
            lf.v = None =>
                LET path == Join(lf.chain, fl.sep)
                IN  IF fl.remove_null THEN ~HasKey(fl.result, path)
                    ELSE HasKey(fl.result, path) /\ Get(fl.result, path) \in NullMarkers

\* C6: int_to_float changes the stored value of a leaf exactly when the leaf
\* is an integer Number (n becomes n.0); String, Bool and non-integer Number
\* leaves are stored verbatim under both settings.
C6_OnlyIntegersCoerced ==
    fl.pc = "done" =>
        \A lf \in LeafChains(fl.d, <<>>) :
            lf.v # None =>
                LET path == Join(lf.chain, fl.sep)
                IN  /\ HasKey(fl.result, path)
                    /\ Get(fl.result, path) =
                          IF lf.v.t = "int" /\ fl.int_to_float THEN PyFloat(lf.v.n, 0)
                          ELSE lf.v

\* C7: for a nested object without arrays, the result holds exactly one entry
\* per non-object leaf: its key is the leaf's chain of keys joined by sep (the
\* bare key at top level) and its value is the leaf.
C7_OneEntryPerLeaf ==
    (fl.pc = "done" /\ ~HasList(fl.d) /\ ~fl.int_to_float) =>
        /\ {<<fl.result.items[x].k, fl.result.items[x].v>> : x \in DOMAIN fl.result.items}
             = {<<Join(lf.chain, fl.sep), lf.v>> : lf \in LeafChains(fl.d, <<>>)}
        /\ Len(fl.result.items) = Cardinality(LeafChains(fl.d, <<>>))

\* C13: flattening is invariant to batching: however the list is split into
\* batches, the result _transform_jsons gives for each record is the result of
\* flattening that record alone, and the results come in the order of the list.
C13_BatchingInvariant ==
    run.fn = "_transform_jsons" =>
        /\ Len(out) = run.li
        /\ \A x \in DOMAIN out :
              out[x] = _flatten(run.json_list[x], <<>>, run.sep, run.int_to_float,
                                run.remove_null, run.flatten_list)

\* A list of two records with different keys was flattened to its end.
C13_Witness ==
    /\ run.fn = "_transform_jsons" /\ run.pc = "returned"
    /\ Len(out) = 2
    /\ HasKey(out[1], <<"x">>) /\ HasKey(out[2], <<"y">>) /\ ~HasKey(out[2], <<"x">>)

\* The list values of d reached through objects only: the chain of keys and
\* the list.
RECURSIVE ListChains(_, _)
ListChains(d, prefix) ==
    UNION {LET it == d.items[x]
           IN  IF it.v.t = "dict" THEN ListChains(it.v, Append(prefix, it.k))
               ELSE IF it.v.t = "list" THEN {[chain |-> Append(prefix, it.k), v |-> it.v]}
               ELSE {} :
           x \in DOMAIN d.items}

\* A mapping with the entries of m, its keys in lexicographic order.
KeysInOrder(m) ==
    PyDict(CHOOSE q \in [1..Len(m.items) -> Range(m.items)] :
              \A x, y \in 1..Len(m.items) : x < y => StrLess(q[x].k, q[y].k))

\* What the claim says of a list: its elements in source order, an object
\* replaced by its own flattened mapping, a null by the marker or by nothing.
RECURSIVE ExpectedElems(_)
ExpectedElems(ws) ==
    IF ws = <<>> THEN <<>>
    ELSE LET w == Head(ws)
         IN  (IF w.t = "dict"
              THEN <<KeysInOrder(_flatten(w, <<>>, fl.sep, fl.int_to_float, fl.remove_null,
                                          fl.flatten_list))>>
              ELSE IF w = None
              THEN (IF fl.remove_null THEN <<>> ELSE <<PyStr(<<"n", "u", "l", "l">>)>>)
              ELSE <<w>>)
             \o ExpectedElems(Tail(ws))

-----------------------------------------------------------------------------
(* Claims about the scans *)

IsScan == run.fn \in {"get_columns", "get_dataframe"}
ScanOver == run.pc \in {"returned", "raised"}

\* C3: in single-JSON/array mode, when a completed top-level substring fails
\* to parse inside the tokenizer, that record is skipped and logged, the later
\* values are still delivered and the scan of the file does not abort.
C3_MalformedValueSkipped ==
    (IsScan /\ run.is_json /\ gen.exc = "JSONDecodeError") =>
        (run.pc # "raised" /\ run.log # <<>>)

\* The lines of file f that json.loads rejects, as the entries the log should
\* hold: the file and the index (from 0) of the line.
RECURSIVE BadLineEntries(_, _, _)
BadLineEntries(lines, f, i) ==
    IF i >= Len(lines) THEN <<>>
    ELSE (IF JsonLoads(lines[i + 1]).ok THEN <<>> ELSE <<[line |-> i, file |-> f]>>)
         \o BadLineEntries(lines, f, i + 1)
RECURSIVE ExpectedLog(_, _)
ExpectedLog(files, f) ==
    IF f > Len(files) THEN <<>>
    ELSE BadLineEntries(SplitLines(files[f], <<>>), f, 0) \o ExpectedLog(files, f + 1)

\* The keys of the flattened records of the lines that parse: what the scan
\* collects when the lines that do not parse are absent.
GoodLineKeys(files) ==
    UNION {UNION {LET parsed == JsonLoads(SplitLines(files[f], <<>>)[i])
                  IN  IF parsed.ok
                      THEN KeySet(_flatten(parsed.val, <<>>, run.sep, run.int_to_float,
                                           run.remove_null, run.flatten_list))
                      ELSE {} :
                  i \in DOMAIN SplitLines(files[f], <<>>)} :
           f \in DOMAIN files}

\* C4: in newline-delimited mode, for every file and every line index k, a
\* line k that fails to parse is skipped with one log entry naming that file
\* and line k, and the records of the lines around it are collected and
\* flattened as if line k were absent.
C4_BadLineSkippedAndLogged ==
    (IsScan /\ ~run.is_json /\ ScanOver) =>
        /\ run.log = ExpectedLog(run.files, 1)
        /\ (run.fn = "get_columns" /\ run.pc = "returned") =>
              Range(run.columns_list) = GoodLineKeys(run.files)

\* C8: for a fixed list of input files and a fixed configuration, main with
\* --streaming and main without it end the same way, with the same header and
\* the same sequence of data rows in the output file.
C8_StreamingEqualsFullMemory ==
    (run.caller = "main" /\ ~run.streaming /\ ScanOver /\ Len(run.outcomes) = 1) =>
        /\ run.outcomes[1].exc = run.exc
        /\ run.outcomes[1].csv = run.csv

\* A list of str in strictly increasing order.
IsSorted(lst) == \A x, y \in DOMAIN lst : x < y => StrLess(lst[x], lst[y])

\* C12: the header main writes is the lexicographically sorted list of the
\* union of the flattened keys of all the records that parse, whatever the
\* batches and the files they come in.
C12_HeaderIsSortedUnion ==
    (run.caller = "main" /\ ~run.is_json /\ run.csv.has_header) =>
        /\ IsSorted(run.csv.header)
        /\ Range(run.csv.header) = GoodLineKeys(run.files)

\* The records of the lines that parse, in the order of the lines and of the
\* files.
RECURSIVE GoodRecordsOfLines(_)
GoodRecordsOfLines(lines) ==
    IF lines = <<>> THEN <<>>
    ELSE (IF JsonLoads(Head(lines)).ok THEN <<JsonLoads(Head(lines)).val>> ELSE <<>>)
         \o GoodRecordsOfLines(Tail(lines))
RECURSIVE GoodRecords(_, _)
GoodRecords(files, f) ==
    IF f > Len(files) THEN <<>>
    ELSE GoodRecordsOfLines(SplitLines(files[f], <<>>)) \o GoodRecords(files, f + 1)

\* C17: in the write pass of streaming mode on newline-delimited files, when
\* the pass is over every line that parsed has been passed to update_csv
\* exactly once: the output has one row per such line, in the order of the
\* lines within each file and of the files, each row filled in the columns
\* whose keys its record has.
C17_EveryLineWrittenOnce ==
    (run.fn = "get_dataframe" /\ run.columns # <<>> /\ ~run.is_json /\ ScanOver) =>
        LET recs == _transform_jsons(GoodRecords(run.files, 1), run.sep, run.int_to_float,
                                     run.remove_null, run.flatten_list)
        IN  /\ Len(run.csv.rows) = Len(recs)
            /\ \A r \in DOMAIN recs : \A x \in DOMAIN run.columns :
                  (run.csv.rows[r][x] # <<>>) <=> HasKey(recs[r], run.columns[x])

\* C18: bounded buffering in streaming mode: at every point of the column
\* pass (get_columns) and of the write pass (get_dataframe with a column list),
\* in both source shapes, json_list holds at most the batch size of records,
\* and a batch read_jsons_chunks yields holds at most chunk_size records.
C18_BoundedBuffering ==
    (IsScan /\ (run.fn = "get_columns" \/ run.columns # <<>>)) =>
        /\ Len(run.json_list) <= ChunkSize
        /\ gen.pc # "idle" => Len(gen.data) <= gen.chunk_size

\* The column pass has taken more lines than a batch holds, has updated the
\* columns once and holds a full batch again.
C18_Witness ==
    /\ run.fn = "get_columns" /\ ~run.is_json /\ run.pc = "lines"
    /\ run.j > ChunkSize /\ Len(run.json_list) = ChunkSize
    /\ run.columns_list # <<>>

\* C19: every input file handle opened by get_columns and get_dataframe is
\* released on every exit path of the scan of that file, in both source
\* shapes: once the file's loop has ended normally, and when an exception has
\* propagated out of the scan, the code has left no handle open.
C19_HandlesReleased ==
    (IsScan /\ run.pc \in {"endfile", "file", "returned", "raised"}) => run.open = {}

-----------------------------------------------------------------------------
(* Claims about update_csv *)

WriteOver == run.fn = "update_csv" /\ run.pc = "returned"
Flattened ==
    _transform_jsons(run.json_list, run.sep, run.int_to_float, run.remove_null,
                     run.flatten_list)

\* C9: update_csv emits exactly one row per record of the batch, in batch
\* order, and the field of column c is the record's value at c when the
\* record has key c and the empty string otherwise.
C9_OneRowPerRecord ==
    WriteOver =>
        run.csv.rows =
            [r \in DOMAIN run.json_list |->
                [x \in DOMAIN run.columns |->
                    IF HasKey(Flattened[r], run.columns[x])
                    THEN CellText(Get(Flattened[r], run.columns[x]))
                    ELSE <<>>]]

\* C10: if a flattened record of the batch has a key that is not in the frozen
\* column list, update_csv raises an error: it does not return having written
\* a row without that key's value.
C10_UnknownKeyRaises ==
    WriteOver =>
        \A r \in DOMAIN run.json_list : KeySet(Flattened[r]) \subseteq Range(run.columns)

-----------------------------------------------------------------------------
(* Claims about update_columns_list *)

FlatKeysOf(recs) ==
    UNION {KeySet(_flatten(r, <<>>, run.sep, run.int_to_float, run.remove_null,
                           run.flatten_list)) : r \in recs}

\* C11: the set of columns update_columns_list(C, B) returns is a superset of
\* C, and more exactly C with the flattened keys of B; so after folding
\* batches the column set is the starting one with the flattened keys of all
\* the records folded.
C11_ColumnsMonotone ==
    /\ [](run.fn = "update_columns_list" =>
            Range(run.columns_list) = Range(run.columns) \cup FlatKeysOf(out))
    /\ [][(run.fn = "update_columns_list" /\ run'.fi = run.fi + 1) =>
            /\ Range(run.columns_list) \subseteq Range(run'.columns_list)
            /\ Range(run'.columns_list) =
                  Range(run.columns_list) \cup FlatKeysOf(Range(run'.json_list))]_vars

\* Two batches were folded into a non-empty list and each brought a new column.
C11_Witness ==
    /\ run.fn = "update_columns_list" /\ run.fi = 3
    /\ run.columns = <<<<"y">>>>
    /\ Range(run.columns_list) = {<<"x">>, <<"y">>, <<"x", ".", "z">>}
    /\ run.json_list = <<PyDict(<<Item(<<"x">>, PyInt(1))>>)>>

\* C21: after any sequence of update_columns_list calls starting from the
\* empty list, the column list has no duplicate entry, even when the same key
\* occurs in several records of one batch or in several batches.
C21_NoDuplicateColumns ==
    (run.fn = "update_columns_list" /\ run.columns = <<>>) =>
        \A x, y \in DOMAIN run.columns_list :
            run.columns_list[x] = run.columns_list[y] => x = y

\* Starting from the empty list, two calls were made; the second batch holds
\* the key x in both of its records and x is a column once.
C21_Witness ==
    /\ run.fn = "update_columns_list" /\ run.columns = <<>> /\ run.fi = 3
    /\ run.json_list = <<PyDict(<<Item(<<"x">>, PyInt(1))>>), PyDict(<<Item(<<"x">>, PyInt(1))>>)>>
    /\ out = {PyDict(<<Item(<<"x">>, PyInt(1))>>)}
    /\ run.columns_list = <<<<"x">>>>

=============================================================================
